---- MODULE Spec2Model ----
(***************************************************************************)
(* Model of AirplaneTracking/main.py: the Airplane entity (target, display *)
(* and previous position, interpolation counter, bounded trail), the       *)
(* OpenSky fetcher with its cache, and the frame loop of                   *)
(* AirplaneTrackingApp.run that interpolates every frame and refreshes the *)
(* store from the feed every API_UPDATE_INTERVAL seconds.                  *)
(*                                                                         *)
(* Numbers.  Coordinates are whole degrees; the one place where the code   *)
(* leaves the integers, start + (end - start) * (step / 30), is computed   *)
(* in fixed point with the product rounded to the nearest unit, as the     *)
(* floating-point product is rounded to the nearest representable value.   *)
(* The transform pipeline works on exact fractions (hundredths of a degree, *)
(* tenths of zoom) and truncates where the code calls int().               *)
(*                                                                         *)
(* Time.  Python statements take no time; the clock advances only while    *)
(* the program blocks: inside requests.get and at the end of a frame       *)
(* (drawing, clock.tick).  The model keeps, instead of the absolute clock, *)
(* the ages  time.time() - x  of the timestamps x the code compares with,  *)
(* each saturating above the largest threshold it is compared against.     *)
(***************************************************************************)
EXTENDS Integers, Sequences, FiniteSets, TLC

\* ------------------------------------------------------------------------
\* Program constants (main.py, CONSTANTS AND CONFIGURATION)
\* ------------------------------------------------------------------------
ASIA_MIN_LAT == -10
ASIA_MAX_LAT == 55
ASIA_MIN_LON == 60
ASIA_MAX_LON == 150
API_UPDATE_INTERVAL == 10
INTERPOLATION_STEPS == 30
SCREEN_WIDTH == 1200
SCREEN_HEIGHT == 800
\* self.max_trail_length, set in Airplane.__init__
MAX_TRAIL_LENGTH == 20
\* the literal 20 of the hover test in check_hover
HOVER_RADIUS == 20
\* the literal 60 of the eviction test in update_airplanes
GRACE_SECONDS == 60

\* ------------------------------------------------------------------------
\* Bounds of the model
\* ------------------------------------------------------------------------
\* update_target calls explored per entity when every input is free
MaxUpdates == 2
\* sightings of one entity along a route (more than MAX_TRAIL_LENGTH)
MaxSightings == 22
\* seconds the clock advances in one step of the environment
TickLen == 10
\* update_airplanes calls explored in one run of the application
MaxRefresh == 2

\* ------------------------------------------------------------------------
\* Values as they arrive from JSON: null, a number, a string (a sequence of
\* one-character strings, so that strip() and slicing can be computed)
\* ------------------------------------------------------------------------
Null == [t |-> "null", n |-> 0, s |-> <<>>]
Num(x) == [t |-> "num", n |-> x, s |-> <<>>]
Str(cs) == [t |-> "str", n |-> 0, s |-> cs]

IsNone(v) == v.t = "null"

\* Python truthiness of a JSON value: None, 0 and "" are false
Truthy(v) ==
    CASE v.t = "null" -> FALSE
      [] v.t = "num" -> v.n # 0
      [] OTHER -> Len(v.s) > 0

RECURSIVE LStrip(_)
LStrip(cs) ==
    IF cs # <<>> /\ Head(cs) = " " THEN LStrip(Tail(cs)) ELSE cs

RECURSIVE RStrip(_)
RStrip(cs) ==
    IF cs # <<>> /\ cs[Len(cs)] = " "
    THEN RStrip(SubSeq(cs, 1, Len(cs) - 1))
    ELSE cs

\* str.strip()
Strip(cs) == RStrip(LStrip(cs))

\* ord() of the characters the modelled callsigns are made of
Ord(c) ==
    CASE c = " " -> 32
      [] c = "/" -> 47
      [] c = "1" -> 49
      [] c = "2" -> 50
      [] c = "A" -> 65
      [] c = "J" -> 74
      [] c = "L" -> 76
      [] c = "N" -> 78
      [] c = "U" -> 85
      [] c = "K" -> 75
      [] c = "k" -> 107
      [] c = "n" -> 110
      [] c = "o" -> 111
      [] c = "w" -> 119
      [] OTHER -> 63

RECURSIVE SumOrd(_)
SumOrd(cs) == IF cs = <<>> THEN 0 ELSE Ord(Head(cs)) + SumOrd(Tail(cs))

\* n / d rounded to the nearest integer (d > 0)
RoundDiv(n, d) ==
    IF n >= 0 THEN (2 * n + d) \div (2 * d) ELSE -((2 * (-n) + d) \div (2 * d))

\* an interpolation measured back from the end point
linear_interpolation_from_end(start, end, tn, td) ==
    end - RoundDiv((end - start) * tn, td)

\* linear_interpolation(start, end, t) with t = tn / td
linear_interpolation(start, end, tn, td) ==
    start + RoundDiv((end - start) * tn, td)

\* ------------------------------------------------------------------------
\* Fractions <<n, d>> with d > 0, in lowest terms: the values of the
\* transform pipeline (hundredths of a degree, tenths of zoom, the quotients
\* of the normalisation), computed exactly
\* ------------------------------------------------------------------------
RECURSIVE GCD(_, _)
GCD(a, b) == IF b = 0 THEN a ELSE GCD(b, a % b)

Rat(n, d) ==
    LET g == GCD(IF n >= 0 THEN n ELSE -n, d)
    IN  << n \div g, d \div g >>

Whole(n) == << n, 1 >>
RAdd(a, b) == Rat(a[1] * b[2] + b[1] * a[2], a[2] * b[2])
RSub(a, b) == Rat(a[1] * b[2] - b[1] * a[2], a[2] * b[2])
RMul(a, b) == Rat(a[1] * b[1], a[2] * b[2])
\* a / b for b # 0
RDiv(a, b) ==
    IF b[1] > 0 THEN Rat(a[1] * b[2], a[2] * b[1])
                ELSE Rat(-(a[1] * b[2]), a[2] * (-b[1]))
RLeq(a, b) == a[1] * b[2] <= b[1] * a[2]
RMin(a, b) == IF RLeq(a, b) THEN a ELSE b
RMax(a, b) == IF RLeq(a, b) THEN b ELSE a

\* int(x): truncation toward zero
Trunc(a) == IF a[1] >= 0 THEN a[1] \div a[2] ELSE -((-a[1]) \div a[2])

\* ------------------------------------------------------------------------
\* CoordinateTransformer
\* ------------------------------------------------------------------------
\* CoordinateTransformer.__init__: nine assignments, nothing is checked
CoordinateTransformer(min_lat, max_lat, min_lon, max_lon, screen_width, screen_height, zoom, pan_x, pan_y) ==
    [ min_lat |-> min_lat, max_lat |-> max_lat,
      min_lon |-> min_lon, max_lon |-> max_lon,
      screen_width |-> screen_width, screen_height |-> screen_height,
      zoom |-> zoom, pan_x |-> pan_x, pan_y |-> pan_y ]

\* what a geo_to_screen call leaves: the pixel, or the exception raised
Pixel(x, y) == [x |-> x, y |-> y, exc |-> ""]
Raised(e) == [x |-> 0, y |-> 0, exc |-> e]

\* the divisions of geo_to_screen raise on a zero divisor
DivisionRaises(t) == t.max_lon = t.min_lon \/ t.max_lat = t.min_lat

\* norm_x and norm_y
NormX(t, lon) ==
    RDiv(RSub(lon, Whole(t.min_lon)), Whole(t.max_lon - t.min_lon))
NormY(t, lat) ==
    RDiv(RSub(Whole(t.max_lat), lat), Whole(t.max_lat - t.min_lat))

\* center + (p - center) * zoom
ZoomAbout(p, center, zoom) == RAdd(center, RMul(RSub(p, center), zoom))

\* a pipeline that drops the inversion of the Y axis
geo_to_screen_upright(t, lat, lon) ==
    IF DivisionRaises(t) THEN Raised("ZeroDivisionError")
    ELSE LET center_x == Rat(t.screen_width, 2)
             center_y == Rat(t.screen_height, 2)
             x0 == RMul(NormX(t, lon), Whole(t.screen_width))
             y0 == RMul(RSub(Whole(1), NormY(t, lat)), Whole(t.screen_height))
             x1 == ZoomAbout(x0, center_x, t.zoom)
             y1 == ZoomAbout(y0, center_y, t.zoom)
         IN  Pixel(Trunc(RAdd(x1, Whole(t.pan_x))),
                   Trunc(RAdd(y1, Whole(t.pan_y))))

\* a pipeline that pans before it zooms
geo_to_screen_pan_first(t, lat, lon) ==
    IF DivisionRaises(t) THEN Raised("ZeroDivisionError")
    ELSE LET center_x == Rat(t.screen_width, 2)
             center_y == Rat(t.screen_height, 2)
             x0 == RMul(NormX(t, lon), Whole(t.screen_width))
             y0 == RMul(NormY(t, lat), Whole(t.screen_height))
             x1 == RAdd(x0, Whole(t.pan_x))
             y1 == RAdd(y0, Whole(t.pan_y))
         IN  Pixel(Trunc(ZoomAbout(x1, center_x, t.zoom)),
                   Trunc(ZoomAbout(y1, center_y, t.zoom)))

\* CoordinateTransformer.geo_to_screen, lat and lon fractions of a degree
geo_to_screen(t, lat, lon) ==
    IF DivisionRaises(t) THEN Raised("ZeroDivisionError")
    ELSE LET center_x == Rat(t.screen_width, 2)
             center_y == Rat(t.screen_height, 2)
             x0 == RMul(NormX(t, lon), Whole(t.screen_width))
             y0 == RMul(NormY(t, lat), Whole(t.screen_height))
             x1 == ZoomAbout(x0, center_x, t.zoom)
             y1 == ZoomAbout(y0, center_y, t.zoom)
         IN  Pixel(Trunc(RAdd(x1, Whole(t.pan_x))),
                   Trunc(RAdd(y1, Whole(t.pan_y))))

\* ------------------------------------------------------------------------
\* Airplane
\* ------------------------------------------------------------------------
\* assign_color_by_callsign: the colour of a stripped callsign
assign_color_by_callsign(callsign) ==
    LET airline_code == IF Len(callsign) >= 3
                        THEN SubSeq(callsign, 1, 3)
                        ELSE <<"U", "N", "K">>
        hash_val == SumOrd(airline_code)
    IN  << ((hash_val * 67) % 200) + 55,
           ((hash_val * 131) % 200) + 55,
           ((hash_val * 197) % 200) + 55 >>

\* Airplane.__init__ raises AttributeError on callsign.strip() when the
\* callsign is truthy and not a string
InitRaises(callsign) == Truthy(callsign) /\ callsign.t # "str"

\* Airplane.__init__ (callsign: None, "" or a string)
AirplaneInit(icao24, callsign, lat, lon, heading, altitude, velocity) ==
    LET cs == IF Truthy(callsign)
              THEN Strip(callsign.s)
              ELSE <<"U", "n", "k", "n", "o", "w", "n">>
    IN  [ icao24 |-> icao24,
          callsign |-> cs,
          target_lat |-> lat,
          target_lon |-> lon,
          display_lat |-> lat,
          display_lon |-> lon,
          heading |-> IF ~IsNone(heading) THEN heading.n ELSE 0,
          altitude |-> IF ~IsNone(altitude) THEN altitude.n ELSE 0,
          velocity |-> IF ~IsNone(velocity) THEN velocity.n ELSE 0,
          interp_step |-> 0,
          prev_lat |-> lat,
          prev_lon |-> lon,
          trail |-> << <<lat, lon>> >>,
          max_trail_length |-> MAX_TRAIL_LENGTH,
          color |-> assign_color_by_callsign(cs) ]

\* a trail that drops its newest entry instead of its oldest
TrailAppendDropNewest(trail, pos, max_len) ==
    LET appended == Append(trail, pos)
    IN  IF Len(appended) > max_len
        THEN SubSeq(appended, 1, Len(appended) - 1)
        ELSE appended

\* the trail after self.trail.append((lat, lon)) and the pop(0) that
\* follows when it grew beyond max_trail_length
TrailAppend(trail, pos, max_len) ==
    LET appended == Append(trail, pos)
    IN  IF Len(appended) > max_len THEN Tail(appended) ELSE appended

\* an assignment that ignores whether the argument is None
KeepOrReplaceAlways(arg, old) == arg.n

\* the value an optional argument of update_target leaves in its field
KeepOrReplace(arg, old) == IF ~IsNone(arg) THEN arg.n ELSE old

\* an update that restarts the movement from the old target
update_target_from_target(a, lat, lon, heading, altitude, velocity) ==
    [ a EXCEPT
        !.prev_lat = a.target_lat,
        !.prev_lon = a.target_lon,
        !.target_lat = lat,
        !.target_lon = lon,
        !.heading = KeepOrReplace(heading, a.heading),
        !.altitude = KeepOrReplace(altitude, a.altitude),
        !.velocity = KeepOrReplace(velocity, a.velocity),
        !.interp_step = 0,
        !.trail = TrailAppend(a.trail, <<lat, lon>>, a.max_trail_length) ]

\* Airplane.update_target
update_target(a, lat, lon, heading, altitude, velocity) ==
    [ a EXCEPT
        !.prev_lat = a.display_lat,
        !.prev_lon = a.display_lon,
        !.target_lat = lat,
        !.target_lon = lon,
        !.heading = KeepOrReplace(heading, a.heading),
        !.altitude = KeepOrReplace(altitude, a.altitude),
        !.velocity = KeepOrReplace(velocity, a.velocity),
        !.interp_step = 0,
        !.trail = TrailAppend(a.trail, <<lat, lon>>, a.max_trail_length) ]

\* the test with <= in place of <
StillInterpolatingInclusive(step) == step <= INTERPOLATION_STEPS

\* the test  self.interp_step < INTERPOLATION_STEPS  of interpolate
StillInterpolating(step) == step < INTERPOLATION_STEPS

\* Airplane.interpolate
interpolate(a) ==
    IF StillInterpolating(a.interp_step)
    THEN [ a EXCEPT
             !.display_lat = linear_interpolation(a.prev_lat, a.target_lat,
                                 a.interp_step, INTERPOLATION_STEPS),
             !.display_lon = linear_interpolation(a.prev_lon, a.target_lon,
                                 a.interp_step, INTERPOLATION_STEPS),
             !.interp_step = a.interp_step + 1 ]
    ELSE [ a EXCEPT
             !.display_lat = a.target_lat,
             !.display_lon = a.target_lon ]

\* ------------------------------------------------------------------------
\* AviationAPIFetcher
\* ------------------------------------------------------------------------
\* a Python value that is a list, and None
PyList(v) == [k |-> "list", v |-> v]
PyNone == [k |-> "None", v |-> <<>>]

\* an OpenSky state vector: a list of len elements of which the code reads
\* the indices 0, 1, 2, 5, 6, 7, 9 and 10
StateVector(len, icao24, callsign, longitude, latitude, baro_altitude, velocity, true_track) ==
    [ len |-> len, icao24 |-> icao24, callsign |-> callsign,
      longitude |-> longitude, latitude |-> latitude,
      baro_altitude |-> baro_altitude, velocity |-> velocity,
      true_track |-> true_track ]

NoData == [ ok |-> FALSE, icao24 |-> Null, callsign |-> Null,
            longitude |-> 0, latitude |-> 0,
            altitude |-> Null, velocity |-> Null, heading |-> Null ]

\* the test  ASIA_MIN_LAT <= lat <= ASIA_MAX_LAT and
\*            ASIA_MIN_LON <= lon <= ASIA_MAX_LON
InAsia(lat, lon) ==
    /\ ASIA_MIN_LAT <= lat /\ lat <= ASIA_MAX_LAT
    /\ ASIA_MIN_LON <= lon /\ lon <= ASIA_MAX_LON

\* parse_airplane_data: None (NoData) for a vector without position, out of
\* the region, or on which an index or a comparison raises (caught there)
parse_airplane_data(sv) ==
    IF sv.len <= 5 THEN NoData                        \* IndexError on [5]
    ELSE IF IsNone(sv.longitude) THEN NoData
    ELSE IF sv.len <= 6 THEN NoData                   \* IndexError on [6]
    ELSE IF IsNone(sv.latitude) THEN NoData
    ELSE IF sv.latitude.t # "num" \/ sv.longitude.t # "num"
         THEN NoData                                  \* TypeError on <=
    ELSE IF ~InAsia(sv.latitude.n, sv.longitude.n) THEN NoData
    ELSE IF sv.len <= 10 THEN NoData                  \* IndexError on [10]
    ELSE [ ok |-> TRUE,
           icao24 |-> sv.icao24,
           callsign |-> IF Truthy(sv.callsign)
                        THEN sv.callsign ELSE Str(<<"N", "/", "A">>),
           longitude |-> sv.longitude.n,
           latitude |-> sv.latitude.n,
           altitude |-> sv.baro_altitude,
           velocity |-> sv.velocity,
           heading |-> sv.true_track ]

\* the test  current_time - self.last_fetch_time < API_UPDATE_INTERVAL
FetchGated(age) == age < API_UPDATE_INTERVAL

\* What the server answers to requests.get: status 200 with a JSON object
\* whose "states" is a list or null, status 200 with a body response.json()
\* or data.get() raises on, another status, or no answer (requests raises)
Ok(states) == [kind |-> "ok", states |-> states]
BadJson == [kind |-> "bad_json", states |-> PyNone]
HttpError == [kind |-> "http_error", states |-> PyNone]
NetError == [kind |-> "exception", states |-> PyNone]

\* fetch_airplanes from the answer on: the new cache_data, whether
\* last_fetch_time was set, and the value returned.  With "states": null
\* cache_data and last_fetch_time are assigned before len() raises, and the
\* except branch returns the overwritten cache.
fetch_airplanes(cache, resp) ==
    IF resp.kind = "ok"
    THEN [cache |-> resp.states, stamped |-> TRUE, ret |-> resp.states]
    ELSE [cache |-> cache, stamped |-> FALSE, ret |-> cache]

\* the return statement fetch_airplanes leaves by: line 307 after a fetch,
\* line 310 on another status, line 314 after an exception in the try block
\* (raised by requests.get, by response.json() or by len(None))
FetchBranch(resp) ==
    CASE resp.kind = "ok" /\ resp.states.k = "list" -> "fetched"
      [] resp.kind = "http_error" -> "api_error"
      [] OTHER -> "except"

\* ------------------------------------------------------------------------
\* AirplaneTrackingApp.update_airplanes
\* ------------------------------------------------------------------------
\* the dict self.airplanes is a sequence of Airplanes in insertion order
Icaos(planes) == { planes[i].icao24 : i \in DOMAIN planes }
IndexOf(planes, icao) == CHOOSE i \in DOMAIN planes : planes[i].icao24 = icao

\* a loop body that never finds the airplane in the dict
ApplyRecordAlwaysCreate(planes, d) ==
    Append(planes,
           AirplaneInit(d.icao24, d.callsign, d.latitude, d.longitude,
                        d.heading, d.altitude, d.velocity))

\* a loop body that builds a new Airplane over the one it finds
ApplyRecordReplace(planes, d) ==
    LET built == AirplaneInit(d.icao24, d.callsign, d.latitude, d.longitude,
                              d.heading, d.altitude, d.velocity)
    IN  IF d.icao24 \in Icaos(planes)
        THEN [ planes EXCEPT ![IndexOf(planes, d.icao24)] = built ]
        ELSE Append(planes, built)

\* one pass of the loop body over a parsed record
ApplyRecord(planes, d) ==
    IF d.icao24 \in Icaos(planes)
    THEN [ planes EXCEPT ![IndexOf(planes, d.icao24)] =
             update_target(@, d.latitude, d.longitude,
                           d.heading, d.altitude, d.velocity) ]
    ELSE Append(planes,
                AirplaneInit(d.icao24, d.callsign, d.latitude, d.longitude,
                             d.heading, d.altitude, d.velocity))

\* whether the loop body raises on a parsed record: only the constructor can
RecordRaises(planes, d) ==
    d.icao24 \notin Icaos(planes) /\ InitRaises(d.callsign)

\* the for loop over raw_data: the store, current_icao_list and whether an
\* exception left the loop (what was done before it stays done)
RECURSIVE Reconcile(_, _, _)
Reconcile(planes, seen, records) ==
    IF records = <<>>
    THEN [planes |-> planes, seen |-> seen, raised |-> FALSE]
    ELSE LET d == parse_airplane_data(Head(records))
         IN  IF ~d.ok THEN Reconcile(planes, seen, Tail(records))
             ELSE IF RecordRaises(planes, d)
             THEN [planes |-> planes, seen |-> seen \cup {d.icao24},
                   raised |-> TRUE]
             ELSE Reconcile(ApplyRecord(planes, d), seen \cup {d.icao24},
                            Tail(records))

\* an eviction test against the refresh interval instead of 60
StaleAfterInterval(age) == age >= API_UPDATE_INTERVAL

\* the test  time.time() - self.last_api_update > 60
Stale(age) == age > GRACE_SECONDS

\* a removal that takes only the first airplane missing from the snapshot
EvictFirstAbsent(planes, seen, stale) ==
    LET gone == { i \in DOMAIN planes : planes[i].icao24 \notin seen }
    IN  IF stale /\ gone # {}
        THEN LET first == CHOOSE i \in gone : \A j \in gone : i <= j
             IN  SubSeq(planes, 1, first - 1)
                   \o SubSeq(planes, first + 1, Len(planes))
        ELSE planes

\* the removal of the airplanes that are no longer tracked
Evict(planes, seen, stale) ==
    SelectSeq(planes, LAMBDA a : ~(a.icao24 \notin seen /\ stale))

\* update_airplanes on the value fetch_airplanes returned, with the age of
\* last_api_update at the eviction test
update_airplanes(planes, raw, age) ==
    IF raw.k # "list"
    THEN [planes |-> planes, exc |-> "TypeError"]
    ELSE LET r == Reconcile(planes, {}, raw.v)
         IN  IF r.raised
             THEN [planes |-> r.planes, exc |-> "AttributeError"]
             ELSE [planes |-> Evict(r.planes, r.seen, Stale(age)),
                   exc |-> ""]

\* ------------------------------------------------------------------------
\* State
\* ------------------------------------------------------------------------
VARIABLES
    plane,        \* one Airplane driven call by call
    received,     \* the positions that Airplane was given, in arrival order
    lastCall,     \* the last call made on it, with its arguments
    pc,           \* where AirplaneTrackingApp.run stands
    running,      \* self.running
    airplanes,    \* self.airplanes, in insertion order
    cache_data,   \* api_fetcher.cache_data
    raw_data,     \* what the last fetch_airplanes call returned
    fetch_age,    \* time.time() - api_fetcher.last_fetch_time
    api_age,      \* time.time() - self.last_api_update
    cur_age,      \* time.time() - current_time, the clock read of the frame
    req_age,      \* time.time() - the time of the last requests.get call
    outcome,      \* whether the last requests.get call set last_fetch_time
    refreshes,    \* update_airplanes calls so far, counted up to MaxRefresh
    exc,          \* the exception that ended run, "" when none
    transformer,  \* self.transformer
    zoom,         \* self.zoom
    mouse_pos,    \* self.mouse_pos
    hovered_airplane, \* the icao24 of self.hovered_airplane, Null for None
    last_event,   \* the last event handled or call made by hand
    screen_pos    \* the last geo_to_screen call made by hand and its result

entVars == <<plane, received, lastCall>>
appVars == <<pc, running, airplanes, cache_data, raw_data, fetch_age,
             api_age, cur_age, req_age, outcome, refreshes, exc>>
viewVars == <<transformer, zoom, mouse_pos, hovered_airplane, last_event,
              screen_pos>>
vars == <<entVars, appVars, viewVars>>

\* the first age above every threshold an age is compared with
AgeCap == GRACE_SECONDS + 1
Older(age) == IF age + TickLen > GRACE_SECONDS THEN AgeCap ELSE age + TickLen

\* AirplaneTrackingApp.__init__ and AviationAPIFetcher.__init__: both
\* timestamps are 0, ages ago
AppStart ==
    /\ pc = "start"
    /\ running = TRUE
    /\ airplanes = <<>>
    /\ cache_data = PyList(<<>>)
    /\ raw_data = PyList(<<>>)
    /\ fetch_age = AgeCap
    /\ api_age = AgeCap
    /\ cur_age = AgeCap
    /\ req_age = AgeCap
    /\ outcome = "none"
    /\ refreshes = 0
    /\ exc = ""

\* no geo_to_screen call was made by hand
NotCalled ==
    [ called |-> FALSE, lat |-> Whole(0), lon |-> Whole(0),
      x |-> 0, y |-> 0, exc |-> "" ]

\* the view fields of AirplaneTrackingApp.__init__
ViewStart ==
    /\ transformer = CoordinateTransformer(ASIA_MIN_LAT, ASIA_MAX_LAT,
                          ASIA_MIN_LON, ASIA_MAX_LON,
                          SCREEN_WIDTH, SCREEN_HEIGHT, Whole(1), 0, 0)
    /\ zoom = Whole(1)
    /\ mouse_pos = <<0, 0>>
    /\ hovered_airplane = Null
    /\ last_event = "none"
    /\ screen_pos = NotCalled

\* no Airplane is driven by hand while the application runs
EntIdle ==
    /\ plane = AirplaneInit(Null, Null, 0, 0, Null, Null, Null)
    /\ received = <<>>
    /\ lastCall = [ op |-> "none", lat |-> 0, lon |-> 0, heading |-> Null,
                    altitude |-> Null, velocity |-> Null ]

\* ------------------------------------------------------------------------
\* One Airplane under any sequence of update_target and interpolate calls
\* ------------------------------------------------------------------------
Icao1 == Str(<<"a", "1">>)
Icao2 == Str(<<"b", "2">>)
CallsignANA == Str(<<"A", "N", "A", "1", " ">>)
CallsignJAL == Str(<<"J", "A", "L", "2">>)

EntPositions == { <<10, 100>>, <<40, 130>> }
OptHeadings == {Null, Num(90)}
OptAltitudes == {Null, Num(1000)}
OptVelocities == {Null, Num(250)}

Call(op, lat, lon, heading, altitude, velocity) ==
    [ op |-> op, lat |-> lat, lon |-> lon,
      heading |-> heading, altitude |-> altitude, velocity |-> velocity ]

InitEntity ==
    /\ AppStart
    /\ ViewStart
    /\ \E p \in EntPositions, cs \in {Null, CallsignANA},
          h \in OptHeadings, al \in OptAltitudes, v \in OptVelocities :
        /\ plane = AirplaneInit(Icao1, cs, p[1], p[2], h, al, v)
        /\ received = << p >>
        /\ lastCall = Call("__init__", p[1], p[2], h, al, v)

EntUpdateTarget(lat, lon, h, al, v) ==
    /\ plane' = update_target(plane, lat, lon, h, al, v)
    /\ received' = Append(received, <<lat, lon>>)
    /\ lastCall' = Call("update_target", lat, lon, h, al, v)
    /\ UNCHANGED <<appVars, viewVars>>

EntInterpolate ==
    /\ plane' = interpolate(plane)
    /\ lastCall' = Call("interpolate", 0, 0, Null, Null, Null)
    /\ UNCHANGED <<received, appVars, viewVars>>

EntUpdateAny ==
    /\ Len(received) <= MaxUpdates
    /\ \E p \in EntPositions,
          h \in OptHeadings, al \in OptAltitudes, v \in OptVelocities :
            EntUpdateTarget(p[1], p[2], h, al, v)

NextEntity == EntUpdateAny \/ EntInterpolate

SpecEntity == InitEntity /\ [][NextEntity]_vars

\* ------------------------------------------------------------------------
\* One Airplane sighted again and again along a straight route: the first
\* move is free, every later one repeats it (constant course and speed)
\* ------------------------------------------------------------------------
RouteDeltas == { <<1, 0>>, <<0, 1>>, <<1, 1>>, <<-1, 1>>, <<0, 0>> }

EntUpdateRoute ==
    /\ Len(received) < MaxSightings
    /\ \E d \in RouteDeltas :
        LET n == Len(received)
            last == received[n]
        IN  /\ n >= 2 => d = << last[1] - received[n - 1][1],
                                 last[2] - received[n - 1][2] >>
            /\ EntUpdateTarget(last[1] + d[1], last[2] + d[2],
                               Null, Null, Null)

InitTrail ==
    /\ AppStart
    /\ ViewStart
    /\ \E p \in EntPositions, cs \in {Null, CallsignANA} :
        /\ plane = AirplaneInit(Icao1, cs, p[1], p[2], Num(90), Null, Null)
        /\ received = << p >>
        /\ lastCall = Call("__init__", p[1], p[2], Num(90), Null, Null)

NextTrail == EntUpdateRoute \/ EntInterpolate

SpecTrail == InitTrail /\ [][NextTrail]_vars

\* ------------------------------------------------------------------------
\* The view: handle_events and check_hover
\* ------------------------------------------------------------------------
ZOOM_MIN == Rat(1, 2)
ZOOM_MAX == Whole(3)
ZOOM_STEP == Rat(1, 10)

\* a clamp that forgets the lower bound
ZoomClampUpperOnly(z) == RMin(ZOOM_MAX, z)

\* max(0.5, min(3.0, z))
ZoomClamp(z) == RMax(ZOOM_MIN, RMin(ZOOM_MAX, z))

\* the zoom after a MOUSEWHEEL event with event.y = y
WheelZoom(z, y) ==
    ZoomClamp(IF y > 0 THEN RAdd(z, ZOOM_STEP) ELSE RSub(z, ZOOM_STEP))

\* the test  dist < 20  on the pixel an airplane is drawn at; the square
\* root is taken of a whole number, so the squares compare the same way
NearPointer(a, t, mouse) ==
    LET p == geo_to_screen(t, Whole(a.display_lat), Whole(a.display_lon))
    IN  (mouse[1] - p.x) * (mouse[1] - p.x) + (mouse[2] - p.y) * (mouse[2] - p.y)
            < HOVER_RADIUS * HOVER_RADIUS

\* a scan without the break: the last airplane near the pointer wins
check_hover_no_break(planes, t, mouse) ==
    LET near == SelectSeq(planes, LAMBDA a : NearPointer(a, t, mouse))
    IN  IF near = <<>> THEN Null ELSE near[Len(near)].icao24

\* a scan that answers the first airplane of the feed when none is near
check_hover_never_none(planes, t, mouse) ==
    LET near == SelectSeq(planes, LAMBDA a : NearPointer(a, t, mouse))
    IN  IF near = <<>> THEN Icao1 ELSE Head(near).icao24

\* check_hover: None, then the scan over self.airplanes.values() in
\* insertion order that stops at the first airplane near the pointer
check_hover(planes, t, mouse) ==
    LET near == SelectSeq(planes, LAMBDA a : NearPointer(a, t, mouse))
    IN  IF near = <<>> THEN Null ELSE Head(near).icao24

\* ------------------------------------------------------------------------
\* AirplaneTrackingApp.run
\* ------------------------------------------------------------------------
\* the state vectors the feed is made of
SvA1 == StateVector(17, Icao1, CallsignANA, Num(100), Num(10),
                    Null, Num(250), Num(90))
SvA2 == StateVector(17, Icao1, CallsignANA, Num(130), Num(40),
                    Num(1000), Null, Null)
SvB1 == StateVector(17, Icao2, Null, Num(130), Num(40),
                    Num(1000), Num(250), Null)
\* a callsign that is a number: passes parse_airplane_data
SvBadCallsign == StateVector(17, Icao2, Num(7), Num(100), Num(10),
                             Null, Null, Null)
\* no position, a position given as text, out of the region, too short
SvNoPosition == StateVector(17, Icao2, CallsignJAL, Null, Null,
                            Null, Null, Null)
SvTextPosition == StateVector(17, Icao2, CallsignJAL, Str(<<"1">>),
                              Str(<<"2">>), Null, Null, Null)
SvOutside == StateVector(17, Icao2, CallsignJAL, Num(100), Num(70),
                         Null, Null, Null)
SvShort == StateVector(8, Icao2, CallsignJAL, Num(100), Num(10),
                       Null, Null, Null)

Snapshots ==
    { <<>>,
      <<SvA2, SvB1>>,
      <<SvNoPosition, SvTextPosition, SvA1, SvOutside, SvShort>>,
      <<SvBadCallsign, SvA1>> }

\* every answer the server may give, at the initial fetch and later
AnyAnswer(at) ==
    { Ok(PyList(snap)) : snap \in Snapshots }
        \cup { Ok(PyNone), BadJson, HttpError, NetError }

\* a refresh test that every frame passes
RefreshDueEveryFrame(age) == age >= 0

\* the test  current_time - self.last_api_update >= API_UPDATE_INTERVAL
RefreshDue(age) == age >= API_UPDATE_INTERVAL

CountUp(n) == IF n < MaxRefresh THEN n + 1 ELSE n

\* run, line 693: the initial update_airplanes() up to its requests.get
\* (last_fetch_time is 0, so fetch_airplanes does not answer from the cache)
InitialFetch ==
    /\ pc = "start"
    /\ pc' = "init_request"
    /\ req_age' = 0
    /\ refreshes' = CountUp(refreshes)
    /\ UNCHANGED <<running, airplanes, cache_data, raw_data, fetch_age,
                   api_age, cur_age, outcome, exc>>
    /\ UNCHANGED <<entVars, viewVars>>

\* the rest of update_airplanes once fetch_airplanes returned ret
Refreshed(planes, ret, next) ==
    LET u == update_airplanes(planes, ret, api_age)
    IN  /\ raw_data' = ret
        /\ airplanes' = u.planes
        /\ exc' = u.exc
        /\ pc' = IF u.exc = "" THEN next ELSE "crashed"

\* requests.get returns or raises: the rest of fetch_airplanes (current_time
\* was read when the call was made) and of update_airplanes
Response(answers) ==
    /\ pc \in {"init_request", "request"}
    /\ \E resp \in answers :
        LET f == fetch_airplanes(cache_data, resp)
        IN  /\ cache_data' = f.cache
            /\ fetch_age' = IF f.stamped THEN req_age ELSE fetch_age
            /\ outcome' = IF f.stamped THEN "ok" ELSE "failed"
            /\ Refreshed(airplanes, f.ret,
                   IF pc = "init_request" THEN "init_refreshed"
                                          ELSE "refreshed")
    /\ UNCHANGED <<running, api_age, cur_age, req_age, refreshes>>
    /\ UNCHANGED <<entVars, viewVars>>

\* run, line 694: self.last_api_update = time.time()
InitialStamp ==
    /\ pc = "init_refreshed"
    /\ api_age' = 0
    /\ pc' = "frame"
    /\ UNCHANGED <<running, airplanes, cache_data, raw_data, fetch_age,
                   cur_age, req_age, outcome, refreshes, exc>>
    /\ UNCHANGED <<entVars, viewVars>>

InterpolateAll(planes) == [i \in DOMAIN planes |-> interpolate(planes[i])]

\* one pass of the loop of run from handle_events to the refresh test, and
\* into update_airplanes up to its requests.get when a refresh is due
Frame(bounded) ==
    /\ pc = "frame"
    /\ bounded /\ RefreshDue(api_age) => refreshes < MaxRefresh
    /\ \E quit \in BOOLEAN : running' = (running /\ ~quit)
    /\ cur_age' = 0
    /\ IF RefreshDue(api_age)
       THEN /\ refreshes' = CountUp(refreshes)
            /\ IF FetchGated(fetch_age)
               THEN /\ Refreshed(InterpolateAll(airplanes), cache_data,
                                 "refreshed")
                    /\ UNCHANGED req_age
               ELSE /\ airplanes' = InterpolateAll(airplanes)
                    /\ pc' = "request"
                    /\ req_age' = 0
                    /\ UNCHANGED <<raw_data, exc>>
       ELSE /\ airplanes' = InterpolateAll(airplanes)
            /\ pc' = "render"
            /\ UNCHANGED <<raw_data, exc, req_age, refreshes>>
    /\ UNCHANGED <<cache_data, fetch_age, api_age, outcome>>
    /\ UNCHANGED <<entVars, viewVars>>

\* run, line 712: self.last_api_update = current_time
Stamp ==
    /\ pc = "refreshed"
    /\ api_age' = cur_age
    /\ pc' = "render"
    /\ UNCHANGED <<running, airplanes, cache_data, raw_data, fetch_age,
                   cur_age, req_age, outcome, refreshes, exc>>
    /\ UNCHANGED <<entVars, viewVars>>

\* the rest of the pass: check_hover, the drawing, clock.tick, and the
\* loop test
Render ==
    /\ pc = "render"
    /\ hovered_airplane' = check_hover(airplanes, transformer, mouse_pos)
    /\ pc' = IF running THEN "frame" ELSE "done"
    /\ UNCHANGED <<running, airplanes, cache_data, raw_data, fetch_age,
                   api_age, cur_age, req_age, outcome, refreshes, exc>>
    /\ UNCHANGED <<transformer, zoom, mouse_pos, last_event, screen_pos>>
    /\ UNCHANGED entVars

\* the clock advances while the program waits for the server or for the
\* end of the frame
Tick ==
    /\ pc \in {"init_request", "request", "render"}
    /\ fetch_age' = Older(fetch_age)
    /\ api_age' = Older(api_age)
    /\ cur_age' = Older(cur_age)
    /\ req_age' = Older(req_age)
    /\ UNCHANGED <<pc, running, airplanes, cache_data, raw_data, outcome,
                   refreshes, exc>>
    /\ UNCHANGED <<entVars, viewVars>>

InitApp == AppStart /\ EntIdle /\ ViewStart

NextApp ==
    \/ InitialFetch
    \/ Response(AnyAnswer(pc))
    \/ InitialStamp
    \/ Frame(TRUE)
    \/ Stamp
    \/ Render
    \/ Tick

SpecApp == InitApp /\ [][NextApp]_vars

\* ------------------------------------------------------------------------
\* The application left running on a feed that shows one airplane in its
\* first snapshot and none ever after.  The program takes its next step,
\* requests.get (timeout=10) returns or raises, and the clock advances.
\* ------------------------------------------------------------------------
DepartedAnswer(at) ==
    IF at = "init_request" THEN { Ok(PyList(<<SvA1>>)) }
                           ELSE { Ok(PyList(<<>>)) }

NextLive ==
    \/ InitialFetch
    \/ Response(DepartedAnswer(pc))
    \/ InitialStamp
    \/ Frame(FALSE)
    \/ Stamp
    \/ Render
    \/ Tick

SpecLive ==
    /\ InitApp
    /\ [][NextLive]_vars
    /\ WF_vars(InitialFetch)
    /\ WF_vars(Response(DepartedAnswer(pc)))
    /\ WF_vars(InitialStamp)
    /\ WF_vars(Frame(FALSE))
    /\ WF_vars(Stamp)
    /\ WF_vars(Render)
    /\ SF_vars(Tick)

\* ------------------------------------------------------------------------
\* The view of a running application: the store holds what the initial
\* snapshot brought, and wheel events, pointer moves and check_hover calls
\* come in any order
\* ------------------------------------------------------------------------
\* an airplane one degree east of SvA1: 13 pixels to its right at zoom 1
SvBNear == StateVector(17, Icao2, CallsignJAL, Num(101), Num(10), Null, Null, Null)

ViewSnapshots == { <<>>, <<SvA1, SvBNear>>, <<SvBNear, SvA1>> }

\* pointer positions: the corner, the pixels of the two airplanes at zoom 1,
\* 20 pixels right of the first, the centre of the window
PointerPositions ==
    { <<0, 0>>, <<533, 553>>, <<546, 553>>, <<553, 553>>, <<600, 400>> }

InitView ==
    /\ \E snap \in ViewSnapshots :
        /\ airplanes = update_airplanes(<<>>, PyList(snap), 0).planes
        /\ cache_data = PyList(snap)
        /\ raw_data = PyList(snap)
    /\ pc = "frame"
    /\ running = TRUE
    /\ fetch_age = 0
    /\ api_age = 0
    /\ cur_age = 0
    /\ req_age = 0
    /\ outcome = "ok"
    /\ refreshes = 1
    /\ exc = ""
    /\ EntIdle
    /\ ViewStart

\* handle_events, one MOUSEWHEEL event
MouseWheel ==
    /\ \E y \in {-1, 1} :
        /\ zoom' = WheelZoom(zoom, y)
        /\ transformer' = [transformer EXCEPT !.zoom = WheelZoom(zoom, y)]
        /\ last_event' = IF y > 0 THEN "wheel_up" ELSE "wheel_down"
    /\ UNCHANGED <<mouse_pos, hovered_airplane, screen_pos>>
    /\ UNCHANGED <<entVars, appVars>>

\* handle_events, one MOUSEMOTION event
MouseMotion ==
    /\ \E pos \in PointerPositions : mouse_pos' = pos
    /\ last_event' = "motion"
    /\ UNCHANGED <<transformer, zoom, hovered_airplane, screen_pos>>
    /\ UNCHANGED <<entVars, appVars>>

\* check_hover, as run calls it in every pass
CheckHover ==
    /\ hovered_airplane' = check_hover(airplanes, transformer, mouse_pos)
    /\ last_event' = "check_hover"
    /\ UNCHANGED <<transformer, zoom, mouse_pos, screen_pos>>
    /\ UNCHANGED <<entVars, appVars>>

NextView == MouseWheel \/ MouseMotion \/ CheckHover

SpecView == InitView /\ [][NextView]_vars

\* ------------------------------------------------------------------------
\* A CoordinateTransformer built by hand with any bounds, zoom and pan, and
\* asked for the pixel of any point
\* ------------------------------------------------------------------------
\* (min_lat, max_lat, min_lon, max_lon): the region of the application, a
\* small square, and two regions without height or without width
BoundsChoices ==
    { <<ASIA_MIN_LAT, ASIA_MAX_LAT, ASIA_MIN_LON, ASIA_MAX_LON>>,
      <<0, 10, 0, 20>>,
      <<10, 10, ASIA_MIN_LON, ASIA_MAX_LON>>,
      <<ASIA_MIN_LAT, ASIA_MAX_LAT, 100, 100>> }
ZoomChoices == { Rat(1, 2), Whole(1), Rat(3, 2), Whole(3) }
PanChoices == { <<0, 0>>, <<25, -40>> }

\* (lat, lon): Tokyo, the centres of the two regions, corners, a point
\* outside both regions
GeoPoints ==
    { << Rat(3568, 100), Rat(13976, 100) >>,
      << Rat(45, 2), Whole(105) >>,
      << Whole(5), Whole(10) >>,
      << Whole(-10), Whole(60) >>,
      << Whole(55), Whole(150) >>,
      << Whole(60), Whole(160) >> }

InitTransform ==
    /\ AppStart
    /\ EntIdle
    /\ \E b \in BoundsChoices, z \in ZoomChoices, pan \in PanChoices :
          transformer = CoordinateTransformer(b[1], b[2], b[3], b[4],
                            SCREEN_WIDTH, SCREEN_HEIGHT, z, pan[1], pan[2])
    /\ zoom = Whole(1)
    /\ mouse_pos = <<0, 0>>
    /\ hovered_airplane = Null
    /\ last_event = "none"
    /\ screen_pos = NotCalled

\* one geo_to_screen call
GeoToScreen ==
    /\ \E g \in GeoPoints :
        LET r == geo_to_screen(transformer, g[1], g[2])
        IN  screen_pos' = [ called |-> TRUE, lat |-> g[1], lon |-> g[2],
                            x |-> r.x, y |-> r.y, exc |-> r.exc ]
    /\ last_event' = "geo_to_screen"
    /\ UNCHANGED <<transformer, zoom, mouse_pos, hovered_airplane>>
    /\ UNCHANGED <<entVars, appVars>>

NextTransform == GeoToScreen

SpecTransform == InitTransform /\ [][NextTransform]_vars

\* ------------------------------------------------------------------------
\* The application under a pointer that moves between the corner of the
\* window and the pixel where the two airplanes of the initial snapshot are
\* drawn, on a feed that later shows the second of them only, or none
\* ------------------------------------------------------------------------
HoverAnswer(at) ==
    IF at = "init_request"
    THEN { Ok(PyList(<<SvA2, SvB1>>)) }
    ELSE { Ok(PyList(<<SvB1>>)), Ok(PyList(<<>>)), NetError }

\* (0, 0) and the pixel of lat 40, lon 130 at zoom 1
HoverPointers == { <<0, 0>>, <<933, 184>> }

\* handle_events of a pass of the loop, one MOUSEMOTION event
PointerMoves ==
    /\ pc = "frame"
    /\ \E pos \in HoverPointers : mouse_pos' = pos
    /\ last_event' = "motion"
    /\ UNCHANGED <<transformer, zoom, hovered_airplane, screen_pos>>
    /\ UNCHANGED <<entVars, appVars>>

NextHover ==
    \/ InitialFetch
    \/ Response(HoverAnswer(pc))
    \/ InitialStamp
    \/ PointerMoves
    \/ Frame(TRUE)
    \/ Stamp
    \/ Render
    \/ Tick

SpecHover == InitApp /\ [][NextHover]_vars

\* ------------------------------------------------------------------------
\* An AviationAPIFetcher called by hand at any moment
\* ------------------------------------------------------------------------
InitFetch ==
    /\ pc = "idle"
    /\ running = TRUE
    /\ airplanes = <<>>
    /\ cache_data = PyList(<<>>)
    /\ raw_data = PyList(<<>>)
    /\ fetch_age = AgeCap
    /\ api_age = AgeCap
    /\ cur_age = AgeCap
    /\ req_age = AgeCap
    /\ outcome = "none"
    /\ refreshes = 0
    /\ exc = ""
    /\ EntIdle
    /\ ViewStart

\* fetch_airplanes up to its return from the cache or to requests.get
FetchCall ==
    /\ pc = "idle"
    /\ IF FetchGated(fetch_age)
       THEN /\ raw_data' = cache_data
            /\ UNCHANGED <<pc, req_age>>
       ELSE /\ pc' = "fetching"
            /\ req_age' = 0
            /\ UNCHANGED raw_data
    /\ last_event' = "fetch_airplanes"
    /\ UNCHANGED <<running, airplanes, cache_data, fetch_age, api_age, cur_age,
                   outcome, refreshes, exc>>
    /\ UNCHANGED <<transformer, zoom, mouse_pos, hovered_airplane, screen_pos>>
    /\ UNCHANGED entVars

\* requests.get returns or raises: the rest of fetch_airplanes
FetchResponse ==
    /\ pc = "fetching"
    /\ \E resp \in AnyAnswer(pc) :
        LET f == fetch_airplanes(cache_data, resp)
        IN  /\ cache_data' = f.cache
            /\ fetch_age' = IF f.stamped THEN req_age ELSE fetch_age
            /\ outcome' = IF f.stamped THEN "ok" ELSE "failed"
            /\ raw_data' = f.ret
            /\ last_event' = FetchBranch(resp)
    /\ pc' = "idle"
    /\ UNCHANGED <<running, airplanes, api_age, cur_age, req_age, refreshes,
                   exc>>
    /\ UNCHANGED <<transformer, zoom, mouse_pos, hovered_airplane, screen_pos>>
    /\ UNCHANGED entVars

\* the clock advances between two calls and while requests.get waits
FetchTick ==
    /\ pc \in {"idle", "fetching"}
    /\ fetch_age' = Older(fetch_age)
    /\ api_age' = Older(api_age)
    /\ cur_age' = Older(cur_age)
    /\ req_age' = Older(req_age)
    /\ last_event' = "tick"
    /\ UNCHANGED <<pc, running, airplanes, cache_data, raw_data, outcome,
                   refreshes, exc>>
    /\ UNCHANGED <<transformer, zoom, mouse_pos, hovered_airplane, screen_pos>>
    /\ UNCHANGED entVars

NextFetch == FetchCall \/ FetchResponse \/ FetchTick

SpecFetch == InitFetch /\ [][NextFetch]_vars

\* ------------------------------------------------------------------------
\* Claims about the store and the frame loop
\* ------------------------------------------------------------------------
Tracked(icao) == icao \in Icaos(airplanes)

\* the icao24 of the records of a fetched value that pass parse_airplane_data
Sighted(raw) ==
    IF raw.k # "list" THEN {}
    ELSE { parse_airplane_data(raw.v[i]).icao24 :
             i \in { j \in DOMAIN raw.v : parse_airplane_data(raw.v[j]).ok } }

\* C2: while the loop keeps running and refreshes keep coming, each within
\* the grace window of the one before, an entity that is absent from every
\* later snapshot is eventually deleted from airplanes.
C2_AbsentEventuallyEvicted ==
    ( []<>(pc = "refreshed") /\ <>[](api_age <= GRACE_SECONDS) )
        => []<>( ~Tracked(Icao1) \/ Icao1 \in Sighted(raw_data) )

\* ------------------------------------------------------------------------
\* Claims about one Airplane
\* ------------------------------------------------------------------------
AtTarget(a) == a.display_lat = a.target_lat /\ a.display_lon = a.target_lon

\* C1: whenever interp_step = INTERPOLATION_STEPS the display position is
\* the target position (in particular after exactly INTERPOLATION_STEPS
\* interpolate() calls following an update_target()).
C1_PinnedWhenStepsDone ==
    plane.interp_step = INTERPOLATION_STEPS => AtTarget(plane)

\* the last n elements of s
LastN(s, n) == IF Len(s) <= n THEN s ELSE SubSeq(s, Len(s) - n + 1, Len(s))

\* C7: the trail never holds more than max_trail_length positions and is
\* exactly the most recent (up to 20) positions received, in arrival order.
C7_TrailIsRecentWindow ==
    /\ Len(plane.trail) <= MAX_TRAIL_LENGTH
    /\ plane.trail = LastN(received, MAX_TRAIL_LENGTH)

\* more than 20 positions were received and the oldest ones are gone
C7_Witness ==
    /\ Len(received) > MAX_TRAIL_LENGTH + 1
    /\ Len(plane.trail) = MAX_TRAIL_LENGTH
    /\ plane.trail[1] = received[Len(received) - MAX_TRAIL_LENGTH + 1]
    /\ plane.trail[1] # received[1]
    /\ plane.trail[1] # received[2]

\* C9: update_target with heading, altitude or velocity absent leaves the
\* stored value as it was, and with it present stores the given value,
\* each of the three independently of the other two.
C9_OptionalKeptOrReplaced ==
    [][ lastCall'.op = "update_target" =>
          /\ plane'.heading = IF IsNone(lastCall'.heading)
                              THEN plane.heading ELSE lastCall'.heading.n
          /\ plane'.altitude = IF IsNone(lastCall'.altitude)
                               THEN plane.altitude ELSE lastCall'.altitude.n
          /\ plane'.velocity = IF IsNone(lastCall'.velocity)
                               THEN plane.velocity ELSE lastCall'.velocity.n
      ]_vars

\* an update without heading kept the known heading while the altitude it
\* carried was stored
C9_Witness ==
    /\ lastCall.op = "update_target"
    /\ IsNone(lastCall.heading) /\ plane.heading = 90
    /\ ~IsNone(lastCall.altitude) /\ plane.altitude = 1000
    /\ IsNone(lastCall.velocity) /\ plane.velocity = 250

\* C10: 0 <= interp_step <= INTERPOLATION_STEPS in every reachable state,
\* whatever the interleaving of interpolate() and update_target().
C10_StepInRange ==
    plane.interp_step \in 0 .. INTERPOLATION_STEPS

\* the counter reached its upper end after a re-targeting in mid-flight,
\* and one more interpolate() was made there
C10_Witness ==
    /\ plane.interp_step = INTERPOLATION_STEPS
    /\ Len(received) = 3
    /\ lastCall.op = "interpolate"
    /\ AtTarget(plane)
    /\ plane.prev_lat \notin {10, 40}

\* C11: whenever interp_step = INTERPOLATION_STEPS, a call of interpolate()
\* leaves the display position, interp_step and every other field of the
\* Airplane as they are.
C11_NoOpWhenStepsDone ==
    plane.interp_step = INTERPOLATION_STEPS => interpolate(plane) = plane

Gap(x, y) == IF x >= y THEN x - y ELSE y - x

\* v lies between the end points a and b
Between(v, a, b) == (a <= v /\ v <= b) \/ (b <= v /\ v <= a)

\* C17: an interpolate() call never increases the distance from the
\* display position to the target on either axis, and the display position
\* stays between the position the movement started from and the target.
C17_MonotoneApproach ==
    [][ lastCall'.op = "interpolate" =>
          /\ Gap(plane'.display_lat, plane.target_lat)
                <= Gap(plane.display_lat, plane.target_lat)
          /\ Gap(plane'.display_lon, plane.target_lon)
                <= Gap(plane.display_lon, plane.target_lon)
          /\ Between(plane'.display_lat, plane.prev_lat, plane.target_lat)
          /\ Between(plane'.display_lon, plane.prev_lon, plane.target_lon)
      ]_vars

\* on the way to a second target, strictly between start and target
C17_Witness ==
    /\ lastCall.op = "interpolate"
    /\ Len(received) = 3
    /\ plane.interp_step \in 2 .. INTERPOLATION_STEPS - 1
    /\ plane.display_lat # plane.prev_lat
    /\ plane.display_lat # plane.target_lat
    /\ plane.display_lon # plane.target_lon

\* C18: update_target leaves the display position where it is, makes it
\* the previous position, stores the new target and resets interp_step to
\* 0; the interpolate() call right after it leaves the display position
\* where it was.
C18_NoJumpOnUpdate ==
    [][ /\ lastCall'.op = "update_target" =>
              /\ plane'.display_lat = plane.display_lat
              /\ plane'.display_lon = plane.display_lon
              /\ plane'.prev_lat = plane.display_lat
              /\ plane'.prev_lon = plane.display_lon
              /\ plane'.target_lat = lastCall'.lat
              /\ plane'.target_lon = lastCall'.lon
              /\ plane'.interp_step = 0
        /\ (lastCall.op = "update_target" /\ lastCall'.op = "interpolate") =>
              /\ plane'.display_lat = plane.display_lat
              /\ plane'.display_lon = plane.display_lon
      ]_vars

\* the first interpolate() after an update made in mid-flight
C18_Witness ==
    /\ lastCall.op = "interpolate"
    /\ plane.interp_step = 1
    /\ Len(received) = 3
    /\ plane.display_lat \notin {10, 40}
    /\ plane.display_lat = plane.prev_lat
    /\ plane.target_lat # plane.display_lat

Requesting == {"init_request", "request"}
AfterUpdate == {"init_refreshed", "refreshed"}

C4_NoEvictionWithinGrace ==
    [][ (pc \in Requesting /\ pc' \notin Requesting
            /\ api_age <= GRACE_SECONDS)
            => Icaos(airplanes) \subseteq Icaos(airplanes') ]_vars

\* an empty snapshot was fetched within the grace window and the tracked
\* entities are all still there
C4_Witness ==
    /\ pc = "refreshed"
    /\ api_age <= GRACE_SECONDS
    /\ outcome = "ok"
    /\ raw_data = PyList(<<>>)
    /\ Len(airplanes) = 2

\* C5: update_airplanes never raises because of one record: a record that
\* fails parsing or validation is skipped, and every other record of the
\* snapshot is created or updated.
C5_MalformedRecordsSkipped ==
    (pc \in AfterUpdate \cup {"crashed"} /\ raw_data.k = "list") =>
        /\ exc = ""
        /\ \A i \in DOMAIN raw_data.v :
              LET d == parse_airplane_data(raw_data.v[i])
              IN  (d.ok /\ ~InitRaises(d.callsign)) => Tracked(d.icao24)

\* C6: whatever the outcome of the request, fetch_airplanes returns a
\* sequence of records and the update_airplanes call that follows does not
\* raise on it.
C6_FetchReturnsRecords ==
    raw_data.k = "list" /\ exc # "TypeError"

SamePositions(p, q) ==
    /\ Len(p) = Len(q)
    /\ \A i \in DOMAIN p :
          /\ p[i].icao24 = q[i].icao24
          /\ p[i].display_lat = q[i].display_lat
          /\ p[i].display_lon = q[i].display_lon
          /\ p[i].target_lat = q[i].target_lat
          /\ p[i].target_lon = q[i].target_lon

\* the ages of last_api_update a second call may find: now or later
LaterAges == {api_age, GRACE_SECONDS, AgeCap}

\* C8 as stated: right after update_airplanes, a second update_airplanes on
\* the same snapshot leaves the number of entities and every display and
\* target position as the first left them.
C8_IdempotentOnSameSnapshot ==
    pc \in AfterUpdate =>
        \A age \in { a \in LaterAges : a >= api_age } :
            LET u == update_airplanes(airplanes, raw_data, age)
            IN  u.exc = "" /\ SamePositions(u.planes, airplanes)

\* C8 amended: the second call changes nothing when its eviction test
\* finds no more than 60 s since last_api_update; when it finds more, it
\* removes the entities absent from the snapshot and leaves the display
\* and target positions of the others as they were.
C8_IdempotentWithinGrace ==
    pc \in AfterUpdate =>
        \A age \in { a \in LaterAges : a >= api_age } :
            LET u == update_airplanes(airplanes, raw_data, age)
                kept == SelectSeq(airplanes,
                            LAMBDA a : a.icao24 \in Sighted(raw_data))
            IN  /\ u.exc = ""
                /\ age <= GRACE_SECONDS => SamePositions(u.planes, airplanes)
                /\ age > GRACE_SECONDS => SamePositions(u.planes, kept)

\* after a refresh within the grace window one entity of the snapshot is
\* on its way to a new target and another is absent from the snapshot
C8_Witness ==
    /\ pc = "refreshed"
    /\ api_age <= GRACE_SECONDS
    /\ \E i \in DOMAIN airplanes :
          /\ airplanes[i].icao24 \in Sighted(raw_data)
          /\ ~AtTarget(airplanes[i])
    /\ \E j \in DOMAIN airplanes : airplanes[j].icao24 \notin Sighted(raw_data)

SameEntityState(p, q) ==
    /\ Len(p) = Len(q)
    /\ \A i \in DOMAIN p :
          /\ p[i].icao24 = q[i].icao24
          /\ p[i].target_lat = q[i].target_lat
          /\ p[i].target_lon = q[i].target_lon
          /\ p[i].prev_lat = q[i].prev_lat
          /\ p[i].prev_lon = q[i].prev_lon
          /\ p[i].interp_step = q[i].interp_step
          /\ p[i].trail = q[i].trail

\* an update_airplanes call returns or raises: requests.get had been called
UpdateEnds == pc \in Requesting /\ pc' \notin Requesting

\* C19: an update_airplanes call whose request fails (HTTP error, network
\* exception, unparsable body) leaves the set of tracked airplanes and the
\* target, previous position, interp_step and trail of each as they were.
C19_FailedRefreshKeepsState ==
    [][ (UpdateEnds /\ outcome' = "failed") =>
            exc' = "" /\ SameEntityState(airplanes', airplanes) ]_vars

C22_IdentityFixedAtCreation ==
    [][ /\ \A i \in DOMAIN airplanes, j \in DOMAIN airplanes' :
              airplanes[i].icao24 = airplanes'[j].icao24 =>
                  /\ airplanes'[j].callsign = airplanes[i].callsign
                  /\ airplanes'[j].color = airplanes[i].color
        /\ \A j, k \in DOMAIN airplanes' :
              airplanes'[j].icao24 = airplanes'[k].icao24 => j = k
        /\ \A j \in DOMAIN airplanes' :
              airplanes'[j].color =
                  assign_color_by_callsign(airplanes'[j].callsign)
      ]_vars

\* the second airplane, created from a record without callsign, was updated
\* by a record that carries the callsign 7
C22_Witness ==
    /\ pc = "refreshed"
    /\ raw_data = PyList(<<SvBadCallsign, SvA1>>)
    /\ \E i \in DOMAIN airplanes :
          /\ airplanes[i].icao24 = Icao2
          /\ airplanes[i].callsign = <<"N", "/", "A">>
          /\ Len(airplanes[i].trail) = 2
          /\ airplanes[i].target_lat = 10

\* ------------------------------------------------------------------------
\* Claims about the view and the transform
\* ------------------------------------------------------------------------
WheelEvents == {"wheel_up", "wheel_down"}

\* C12: every mouse-wheel event leaves zoom in [0.5, 3.0]; a zoom-in at 3.0
\* and a zoom-out at 0.5 leave zoom at that bound (and the transformer
\* carries the same zoom).
C12_ZoomClamped ==
    [][ last_event' \in WheelEvents =>
          /\ RLeq(<<1, 2>>, zoom') /\ RLeq(zoom', <<3, 1>>)
          /\ transformer'.zoom = zoom'
          /\ (zoom = <<3, 1>> /\ last_event' = "wheel_up") => zoom' = <<3, 1>>
          /\ (zoom = <<1, 2>> /\ last_event' = "wheel_down") => zoom' = <<1, 2>>
      ]_vars

\* a zoom-out ended at the lower bound
C12_Witness ==
    /\ last_event = "wheel_down"
    /\ zoom = <<1, 2>>
    /\ transformer.zoom = <<1, 2>>

\* squared pixel distance from the pointer to where airplanes[i] is drawn
PointerDist2(i) ==
    LET p == geo_to_screen(transformer, Whole(airplanes[i].display_lat),
                           Whole(airplanes[i].display_lon))
    IN  (mouse_pos[1] - p.x) * (mouse_pos[1] - p.x)
            + (mouse_pos[2] - p.y) * (mouse_pos[2] - p.y)

InRadius == { i \in DOMAIN airplanes : PointerDist2(i) < 400 }

\* C13: after check_hover, hovered_airplane is the earliest-inserted
\* airplane drawn less than 20 pixels from the pointer, and None when there
\* is none.
C13_FirstMatchWins ==
    last_event = "check_hover" =>
        hovered_airplane =
            IF InRadius = {} THEN Null
            ELSE airplanes[CHOOSE i \in InRadius :
                             \A j \in InRadius : i <= j].icao24

\* the first airplane was taken although the second is nearer the pointer
C13_Witness ==
    /\ last_event = "check_hover"
    /\ InRadius = {1, 2}
    /\ PointerDist2(2) < PointerDist2(1)
    /\ hovered_airplane = airplanes[1].icao24

\* C14: a CoordinateTransformer whose bounds have no height or no width is
\* never built, so that no geo_to_screen call is made on one and none
\* raises.
C14_DegenerateBoundsRejected ==
    screen_pos.called =>
        /\ transformer.max_lat # transformer.min_lat
        /\ transformer.max_lon # transformer.min_lon
        /\ screen_pos.exc = ""

\* the transformer of the example: the region and window of the
\* application, zoom 1, pan (0, 0), asked for Tokyo (35.68, 139.76)
TokyoCall ==
    /\ transformer = CoordinateTransformer(-10, 55, 60, 150, 1200, 800,
                          <<1, 1>>, 0, 0)
    /\ screen_pos.called
    /\ screen_pos.lat = <<892, 25>>
    /\ screen_pos.lon = <<3494, 25>>

Near(a, b, tol) == a - b <= tol /\ b - a <= tol

\* C15 as stated: Tokyo is drawn at about x = 924, y = 311.
C15_TokyoPixelAsStated ==
    TokyoCall => Near(screen_pos.x, 924, 10) /\ Near(screen_pos.y, 311, 10)

\* C15 amended: Tokyo is drawn at x = 1063, y = 237.
C15_TokyoPixel ==
    TokyoCall => screen_pos.exc = "" /\ screen_pos.x = 1063 /\ screen_pos.y = 237

C15_Witness == TokyoCall /\ screen_pos.exc = "" /\ screen_pos.x > 0

\* trunc(size/2 + (norm * size - size/2) * zoom + pan) as one quotient of
\* whole numbers, norm = num / den
PipelineValue(num, den, size, z, pan) ==
    LET d == 2 * den * z[2]
        n == size * den * z[2] + (2 * num * size - size * den) * z[1] + pan * d
    IN  IF n >= 0 THEN n \div d ELSE -((-n) \div d)

\* C16: the pixel is trunc(centre + (norm * size - centre) * zoom + pan) on
\* each axis, Y inverted; with pan (0, 0) the centre of the region is drawn
\* at the centre of the window at every zoom.
C16_NormalizeScaleZoomPan ==
    (screen_pos.called /\ screen_pos.exc = "") =>
        LET t == transformer
            lat == screen_pos.lat
            lon == screen_pos.lon
        IN  /\ screen_pos.x =
                  PipelineValue(lon[1] - t.min_lon * lon[2],
                                lon[2] * (t.max_lon - t.min_lon),
                                t.screen_width, t.zoom, t.pan_x)
            /\ screen_pos.y =
                  PipelineValue(t.max_lat * lat[2] - lat[1],
                                lat[2] * (t.max_lat - t.min_lat),
                                t.screen_height, t.zoom, t.pan_y)
            /\ ( /\ t.pan_x = 0 /\ t.pan_y = 0
                 /\ 2 * lat[1] = (t.min_lat + t.max_lat) * lat[2]
                 /\ 2 * lon[1] = (t.min_lon + t.max_lon) * lon[2] )
                => ( /\ 2 * screen_pos.x = t.screen_width
                     /\ 2 * screen_pos.y = t.screen_height )

\* a point off the centre was drawn under a zoom other than 1 and a pan
C16_Witness ==
    /\ screen_pos.called
    /\ screen_pos.exc = ""
    /\ transformer.zoom = <<3, 2>>
    /\ transformer.pan_x = 25
    /\ screen_pos.lat = <<892, 25>>
    /\ screen_pos.x = 1320

\* C23: when a pass of the loop draws the hover info, hovered_airplane is
\* None or an airplane stored in airplanes: never one that the refresh of
\* this pass or of an earlier one removed.
C23_HoveredIsTracked ==
    [][ (pc = "render" /\ pc' # "render") =>
            \/ hovered_airplane' = Null
            \/ hovered_airplane' \in Icaos(airplanes') ]_vars

\* both airplanes of the initial snapshot were removed by the refresh, the
\* pointer is on the pixel they were drawn at, and the pass has drawn
C23_Witness ==
    /\ pc = "frame"
    /\ refreshes = 2
    /\ api_age > GRACE_SECONDS
    /\ airplanes = <<>>
    /\ mouse_pos = <<933, 184>>
    /\ hovered_airplane = Null

\* ------------------------------------------------------------------------
\* Claims about the fetcher
\* ------------------------------------------------------------------------
\* C21: a fetch_airplanes call made less than API_UPDATE_INTERVAL seconds
\* after last_fetch_time issues no request, returns cache_data and leaves
\* cache_data and last_fetch_time as they are; a request that fails (another
\* status, or an exception in the try block) leaves cache_data as it was,
\* the last snapshot fetched.
C21_CacheServedAndKept ==
    [][ /\ ( /\ pc = "idle"
             /\ last_event' = "fetch_airplanes"
             /\ fetch_age < API_UPDATE_INTERVAL )
            => ( /\ pc' = "idle"
                 /\ raw_data' = cache_data
                 /\ cache_data' = cache_data
                 /\ fetch_age' = fetch_age )
        /\ (pc = "fetching" /\ last_event' \in {"api_error", "except"})
            => cache_data' = cache_data
      ]_vars

====
